---- MODULE Spec2Model ----
(***************************************************************************)
(* A model of parts of the binding generator:                              *)
(*   - CppData (qt_wrapper_generator/src/cpp_data.rs): the aggregate model *)
(*     of a C++ library with its two passes, ensure_explicit_destructors   *)
(*     and split_by_headers;                                               *)
(*   - CppIterator (cpp_core/src/iterator.rs): the Rust iterator backed by *)
(*     a pair of C++ iterators.                                            *)
(*   - recursive_merge_toml, the Cargo.toml data and run of the crate      *)
(*     writer                                                              *)
(*     (ritual/src/crate_writer.rs);                                       *)
(*   - RustFunctionCaptionStrategy::all (ritual/src/rust_info.rs);         *)
(*   - run and run_command of the launcher (src/launcher.rs).              *)
(* Each part has its own specification; the variables of the other parts   *)
(* stay at their idle values.                                              *)
(***************************************************************************)
EXTENDS Integers, Sequences, FiniteSets, TLC

VARIABLES
  types,                    \* CppData.types: Vec<CppTypeData>
  methods,                  \* CppData.methods: Vec<CppMethod>
  template_instantiations,  \* CppData.template_instantiations: HashMap
  result,                   \* the HashMap returned by the last split_by_headers
  runs,                     \* completed calls of ensure_explicit_destructors
  begin,                    \* CppIterator.begin, as a position
  end,                      \* CppIterator.end, as a position
  range,                    \* the positions cpp_iter was called with
  ret,                      \* what the last next / next_back returned
  ops,                      \* the C++ operations the last call performed, in order
  yielded,                  \* every element position yielded so far, in order
  calls,                    \* the calls made so far: "next" / "next_back", in order
  ub,                       \* whether a C++ call with undefined behaviour was made
  toml,                     \* recursive_merge_toml: its arguments and its result
  captions,                 \* a caller of RustFunctionCaptionStrategy::all
  writer,                   \* crate_writer::run: its position and the file system
  launcher                  \* launcher::run: its position and what it has done

dataVars == <<types, methods, template_instantiations, result, runs>>
iterVars == <<begin, end, range, ret, ops, yielded, calls, ub>>
vars == <<types, methods, template_instantiations, result, runs,
          begin, end, range, ret, ops, yielded, calls, ub,
          toml, captions, writer, launcher>>

\* What the actions of one part leave unchanged.
outsideData == <<iterVars, toml, captions, writer, launcher>>
outsideIter == <<dataVars, toml, captions, writer, launcher>>
outsideToml == <<dataVars, iterVars, captions, writer, launcher>>
outsideCaptions == <<dataVars, iterVars, toml, writer, launcher>>
outsideWriter == <<dataVars, iterVars, toml, captions, launcher>>
outsideLauncher == <<dataVars, iterVars, toml, captions, writer>>

(***************************************************************************)
(* Bounds of the model.                                                    *)
(***************************************************************************)
MaxTypes == 2      \* longest list of types of an input model
MaxMethods == 2    \* longest list of methods of an input model
MaxRuns == 2       \* calls of ensure_explicit_destructors on one model
MaxPos == 3        \* the container's positions are 0..MaxPos
MaxExtraCalls == 2 \* calls made beyond the length of the range
MaxAllCalls == 20  \* calls of RustFunctionCaptionStrategy::all
MaxArrayLen == 1   \* longest TOML array of an argument of the merge
MaxFfiItems == 2   \* most FFI items of the current database
MaxRustItems == 1  \* most Rust items of the current database
MaxDepDatabases == 2   \* most dependency databases given to the crate writer
MaxDependencies == 1   \* most dependencies listed in the crate properties

(***************************************************************************)
(* CppData: values.                                                        *)
(***************************************************************************)
TypeNames == {"A", "B"}
Headers == {"h1", "h2"}
RegistryKeys == {"A", "C"}   \* "C" names no type

\* CppTypeKind: the payload of a variant (values, size, bases, fields) is
\* read by neither pass and is carried inside the cloned value.
CppTypeKind == {"Class", "Enum"}

\* The types a parsed model may hold: classes A and B, each declared in either
\* header, and an enum that shares its name with class A.
CppTypeData ==
  [name : TypeNames, header : Headers, kind : {"Class"}]
    \cup {[name |-> "A", header |-> "h1", kind |-> "Enum"]}

is_class(tp) == tp.kind = "Class"

\* CppMethodScope: a free function or a member of the named class.
GlobalScope == [kind |-> "Global"]
ClassScope(name) == [kind |-> "Class", name |-> name]

\* CppTypeOrigin: only the IncludeFile variant names a header.
IncludeFile(h) == [kind |-> "IncludeFile", include_file |-> h, location |-> "None"]
NoIncludeFile == [kind |-> "NotIncludeFile"]

DestructorName(class_name) == "~" \o class_name

\* The fields of CppMethod that the passes read or that tell a synthesized
\* destructor from a parsed method.
CppMethod(name, scope, is_destructor, origin, original_index) ==
  [name |-> name, scope |-> scope, is_virtual |-> FALSE, is_static |-> FALSE,
   visibility |-> "Public", is_destructor |-> is_destructor,
   arguments |-> << >>, original_index |-> original_index, origin |-> origin]

\* The methods a parsed model may hold.
InputMethods ==
  { CppMethod("f", GlobalScope, FALSE, IncludeFile("h1"), 0),
    CppMethod("f", ClassScope("A"), FALSE, IncludeFile("h2"), 1),
    CppMethod("f", ClassScope("B"), FALSE, NoIncludeFile, 2),
    CppMethod("~", ClassScope("A"), TRUE, IncludeFile("h1"), 3),
    CppMethod("~", ClassScope("B"), TRUE, NoIncludeFile, 4),
    CppMethod("~", GlobalScope, TRUE, IncludeFile("h2"), 5) }

\* Vec<Vec<CppType>> of a registry entry, different for each key.
InstantiationsOf(k) == IF k = "A" THEN << <<"int">>, <<"bool">> >> ELSE << <<"int">> >>

SeqsUpTo(S, n) == UNION {[1..k -> S] : k \in 0..n}

EmptyMap == [k \in {} |-> 0]

\* CppData::default()
DefaultCppData == [types |-> << >>, methods |-> << >>, template_instantiations |-> EmptyMap]

\* HashMap::insert
MapInsert(m, k, v) == [x \in (DOMAIN m) \cup {k} |-> IF x = k THEN v ELSE m[x]]

(***************************************************************************)
(* CppData::ensure_explicit_destructors                                    *)
(***************************************************************************)
\* FoundDestructor comparing the method's name, not its scope, with the class.
FoundDestructorByName(ms, class_name) ==
  \E j \in 1..Len(ms) : ms[j].is_destructor /\ ms[j].name = class_name

\* FoundDestructor taking a destructor of any class for one of class_name.
FoundDestructorAnyClass(ms, class_name) ==
  \E j \in 1..Len(ms) : ms[j].is_destructor /\ ms[j].scope.kind = "Class"

\* The inner loop: whether some method is a destructor scoped to class_name.
FoundDestructor(ms, class_name) ==
  \E j \in 1..Len(ms) : ms[j].is_destructor /\ ms[j].scope = ClassScope(class_name)

\* SynthesizedDestructor taking the class name for the header of the origin.
SynthesizedDestructorOriginByName(type1) ==
  [name |-> DestructorName(type1.name), scope |-> ClassScope(type1.name),
   is_virtual |-> FALSE, is_static |-> FALSE, visibility |-> "Public",
   is_destructor |-> TRUE, arguments |-> << >>, original_index |-> 1000,
   origin |-> IncludeFile(type1.name)]

\* The method pushed for a class without a destructor.
SynthesizedDestructor(type1) ==
  [name |-> DestructorName(type1.name), scope |-> ClassScope(type1.name),
   is_virtual |-> FALSE, is_static |-> FALSE, visibility |-> "Public",
   is_destructor |-> TRUE, arguments |-> << >>, original_index |-> 1000,
   origin |-> IncludeFile(type1.header)]

\* The outer loop over self.types from index i on; ms is self.methods so far,
\* so a destructor pushed for an earlier type is seen by the later ones.
RECURSIVE EnsureLoop(_, _, _)
EnsureLoop(ts, i, ms) ==
  IF i > Len(ts) THEN ms
  ELSE LET type1 == ts[i] IN
       IF is_class(type1) /\ ~FoundDestructor(ms, type1.name)
       THEN EnsureLoop(ts, i + 1, Append(ms, SynthesizedDestructor(type1)))
       ELSE EnsureLoop(ts, i + 1, ms)

ensure_explicit_destructors(ts, ms) == EnsureLoop(ts, 1, ms)

(***************************************************************************)
(* CppData::split_by_headers                                               *)
(***************************************************************************)
\* What split_by_headers leaves when an unwrap of get_mut finds no entry.
Panic == [panic |-> TRUE]

\* EnsureEntry without the contains_key test.
EnsureEntryAlways(res, h) == MapInsert(res, h, DefaultCppData)

\* EnsureEntry that tests for the key and does not insert.
EnsureEntryNoInsert(res, h) == res

\* if !result.contains_key(h) { result.insert(h, CppData::default()) }
EnsureEntry(res, h) ==
  IF res = Panic \/ h \in DOMAIN res THEN res ELSE MapInsert(res, h, DefaultCppData)

\* PushMethod pushing the method into every partition made so far.
PushMethodAll(res, h, method) ==
  [k \in DOMAIN res |-> [res[k] EXCEPT !.methods = Append(@, method)]]

\* result.get_mut(h).unwrap().methods.push(method.clone())
PushMethod(res, h, method) ==
  IF res = Panic \/ h \notin DOMAIN res THEN Panic
  ELSE [res EXCEPT ![h].methods = Append(@, method)]

\* The first loop, over self.methods from index i on.
RECURSIVE SplitMethods(_, _, _)
SplitMethods(ms, i, res) ==
  IF i > Len(ms) THEN res
  ELSE LET method == ms[i] IN
       IF method.origin.kind = "IncludeFile"
       THEN SplitMethods(ms, i + 1,
              PushMethod(EnsureEntry(res, method.origin.include_file),
                         method.origin.include_file, method))
       ELSE SplitMethods(ms, i + 1, res)

\* PlaceType copying the registry entry without the test for a class.
PlaceTypeAnyKind(res, tp, insts) ==
  LET r1 == EnsureEntry(res, tp.header)
      r2 == [r1 EXCEPT ![tp.header].types = Append(@, tp)]
  IN IF tp.name \in DOMAIN insts
     THEN [r2 EXCEPT ![tp.header].template_instantiations =
                        MapInsert(@, tp.name, insts[tp.name])]
     ELSE r2

\* PlaceType keying the partition by the first header, not the type's own.
PlaceTypeFirstHeader(res, tp, insts) ==
  LET h == IF DOMAIN res = {} THEN tp.header ELSE CHOOSE k \in DOMAIN res : TRUE
      r1 == EnsureEntry(res, h)
      r2 == [r1 EXCEPT ![h].types = Append(@, tp)]
  IN IF is_class(tp) /\ tp.name \in DOMAIN insts
     THEN [r2 EXCEPT ![h].template_instantiations =
                        MapInsert(@, tp.name, insts[tp.name])]
     ELSE r2

\* The body of the second loop for one type; both get_mut(..).unwrap() are on
\* the key tp.header.
PlaceType(res, tp, insts) ==
  LET r1 == EnsureEntry(res, tp.header) IN
  IF r1 = Panic \/ tp.header \notin DOMAIN r1 THEN Panic
  ELSE LET r2 == [r1 EXCEPT ![tp.header].types = Append(@, tp)]
       IN IF is_class(tp) /\ tp.name \in DOMAIN insts
          THEN [r2 EXCEPT ![tp.header].template_instantiations =
                             MapInsert(@, tp.name, insts[tp.name])]
          ELSE r2

\* The second loop, over self.types from index i on.
RECURSIVE SplitTypes(_, _, _, _)
SplitTypes(ts, i, insts, res) ==
  IF i > Len(ts) THEN res
  ELSE SplitTypes(ts, i + 1, insts, PlaceType(res, ts[i], insts))

split_by_headers(ts, ms, insts) ==
  SplitTypes(ts, 1, insts, SplitMethods(ms, 1, EmptyMap))

(***************************************************************************)
(* CppData: the state machine.                                             *)
(***************************************************************************)
NoResult == [none |-> TRUE]

\* Option<Item> as returned by next and next_back; NotCalled before any call.
None == [some |-> FALSE]
NotCalled == [called |-> FALSE]
Some(value) == [some |-> TRUE, value |-> value]

IterIdle ==
  /\ begin = 0 /\ end = 0 /\ range = <<0, 0>>
  /\ ret = NotCalled /\ ops = << >> /\ yielded = << >> /\ calls = << >>
  /\ ub = FALSE

Idle == [pc |-> "idle"]
TomlIdle == toml = Idle
CaptionsIdle == captions = Idle
WriterIdle == writer = Idle
LauncherIdle == launcher = Idle

DataIdle ==
  /\ types = << >> /\ methods = << >> /\ template_instantiations = EmptyMap
  /\ result = NoResult /\ runs = 0

\* Any model the parser may hand over.
InitCppData ==
  /\ types \in SeqsUpTo(CppTypeData, MaxTypes)
  /\ methods \in SeqsUpTo(InputMethods, MaxMethods)
  /\ \E keys \in SUBSET RegistryKeys :
       template_instantiations = [k \in keys |-> InstantiationsOf(k)]
  /\ result = NoResult
  /\ runs = 0
  /\ IterIdle /\ TomlIdle /\ CaptionsIdle /\ WriterIdle /\ LauncherIdle

\* model.ensure_explicit_destructors(); partitions returned for the model as
\* it was before are dropped.
EnsureExplicitDestructors ==
  /\ runs < MaxRuns
  /\ methods' = ensure_explicit_destructors(types, methods)
  /\ runs' = runs + 1
  /\ result' = NoResult
  /\ UNCHANGED <<types, template_instantiations>>
  /\ UNCHANGED outsideData

\* result = model.split_by_headers()
SplitByHeaders ==
  /\ result' = split_by_headers(types, methods, template_instantiations)
  /\ UNCHANGED <<types, methods, template_instantiations, runs>>
  /\ UNCHANGED outsideData

NextCppData == EnsureExplicitDestructors \/ SplitByHeaders

SpecCppData == InitCppData /\ [][NextCppData]_vars


(***************************************************************************)
(* CppData: properties.                                                    *)
(***************************************************************************)
Count(seq, x) == Cardinality({i \in 1..Len(seq) : seq[i] = x})
Elems(seq) == {seq[i] : i \in 1..Len(seq)}

Split == result # NoResult /\ result # Panic
Partitions == IF Split THEN DOMAIN result ELSE {}

\* How often method m occurs in all partitions together.
MethodOccurrences(m) ==
  Cardinality({p \in UNION {{<<h, j>> : j \in 1..Len(result[h].methods)} : h \in Partitions} :
                 result[p[1]].methods[p[2]] = m})

PartitionMethods == UNION {Elems(result[h].methods) : h \in Partitions}
PartitionTypes == UNION {Elems(result[h].types) : h \in Partitions}

IsSynthesized(m) == m.original_index = 1000

\* C1: ensure_explicit_destructors is idempotent: a run that follows an
\* earlier run leaves the method list as it is.
C1_Idempotent ==
  [][(runs >= 1 /\ runs' = runs + 1) => methods' = methods]_vars

\* Two runs were made on a model with two types of one name, an enum among
\* its types, and a class for which a destructor was synthesized.
C1_Witness ==
  /\ runs = 2
  /\ \E i, j \in 1..Len(types) : i # j /\ types[i].name = types[j].name
  /\ \E i \in 1..Len(types) : ~is_class(types[i])
  /\ \E j \in 1..Len(methods) : IsSynthesized(methods[j])

\* C2: after ensure_explicit_destructors every class-kind type has a method
\* with is_destructor set whose scope is that class.
C2_Total ==
  runs >= 1 =>
    \A i \in 1..Len(types) :
      is_class(types[i]) =>
        \E j \in 1..Len(methods) :
          /\ methods[j].is_destructor
          /\ methods[j].scope = ClassScope(types[i].name)

\* After a run: two classes of different names, one with a parsed destructor
\* and one with a synthesized destructor.
C2_Witness ==
  /\ runs = 1
  /\ \E i, j \in 1..Len(types) :
       /\ is_class(types[i]) /\ is_class(types[j]) /\ types[i].name # types[j].name
       /\ \E k \in 1..Len(methods) :
            /\ ~IsSynthesized(methods[k]) /\ methods[k].is_destructor
            /\ methods[k].scope = ClassScope(types[i].name)
       /\ \E k \in 1..Len(methods) :
            /\ IsSynthesized(methods[k])
            /\ methods[k].scope = ClassScope(types[j].name)

\* C3 as stated: every method of the model occurs exactly once in the
\* partitions for each time it occurs in the model, whatever its origin, and
\* the partitions hold no other method.
C3_AsStated ==
  Split =>
    /\ \A m \in Elems(methods) : MethodOccurrences(m) = Count(methods, m)
    /\ PartitionMethods \subseteq Elems(methods)

\* C3 (amended): every method whose origin is an include file occurs in the
\* partitions exactly as often as in the model; a method of any other origin
\* occurs in no partition; the partitions hold no method that is not in the
\* model.
C3_HeaderMethodsOnce ==
  Split =>
    /\ \A m \in Elems(methods) :
         MethodOccurrences(m) =
           IF m.origin.kind = "IncludeFile" THEN Count(methods, m) ELSE 0
    /\ PartitionMethods \subseteq Elems(methods)

\* A split of a model with a method of no include file and two methods of
\* one header.
C3_Witness ==
  /\ Split
  /\ \E j \in 1..Len(methods) : methods[j].origin.kind # "IncludeFile"
  /\ \E h \in Partitions : Len(result[h].methods) >= 2

\* C4: a method in partition H has an origin naming H and is a method of the
\* model, unchanged; a method whose origin names H is in no other partition.
C4_MethodsByOrigin ==
  Split =>
    \A h \in Partitions :
      \A j \in 1..Len(result[h].methods) :
        LET m == result[h].methods[j] IN
          /\ m.origin.kind = "IncludeFile"
          /\ m.origin.include_file = h
          /\ m \in Elems(methods)
          /\ \A g \in Partitions \ {h} : m \notin Elems(result[g].methods)

\* A split that put a method of a class into a header other than the one that
\* declares the class, with both partitions present.
C4_Witness ==
  /\ Split
  /\ \E h, g \in Partitions :
       /\ h # g
       /\ \E j \in 1..Len(result[h].methods) :
            /\ result[h].methods[j].scope.kind = "Class"
            /\ \E i \in 1..Len(result[g].types) :
                 /\ is_class(result[g].types[i])
                 /\ result[h].methods[j].scope = ClassScope(result[g].types[i].name)
            /\ \A i \in 1..Len(types) : types[i].header = g

\* C5: every type of the model is, unchanged and as often as in the model, in
\* the partition of its own header and in no other; the partitions hold no
\* type that is not in the model.
C5_TypesByHeader ==
  Split =>
    /\ \A t \in Elems(types) :
         /\ t.header \in Partitions
         /\ Count(result[t.header].types, t) = Count(types, t)
         /\ \A g \in Partitions \ {t.header} : t \notin Elems(result[g].types)
    /\ PartitionTypes \subseteq Elems(types)

\* A split of a model whose types are declared in two headers, one of them a
\* header that no method names.
C5_Witness ==
  /\ Split
  /\ \E i, j \in 1..Len(types) :
       /\ types[i].header # types[j].header
       /\ result[types[i].header].methods = << >>
       /\ result[types[i].header].types # << >>
       /\ result[types[j].header].types # << >>

\* The partitions that hold a registry entry for key k.
HoldersOf(k) == {h \in Partitions : k \in DOMAIN result[h].template_instantiations}

\* C6 as stated: every registry entry is, unchanged, in exactly one partition,
\* and that partition holds a type of the entry's key.
C6_AsStated ==
  Split =>
    \A k \in DOMAIN template_instantiations :
      /\ Cardinality(HoldersOf(k)) = 1
      /\ \A h \in HoldersOf(k) :
           /\ result[h].template_instantiations[k] = template_instantiations[k]
           /\ \E i \in 1..Len(result[h].types) : result[h].types[i].name = k

\* C6 (amended): partition H holds an entry for key K exactly when the
\* registry has key K and a class-kind type named K is declared in H, and the
\* entry is then unchanged; the partitions hold no other entry.
C6_EntriesFollowClasses ==
  Split =>
    /\ \A h \in Partitions :
         \A k \in DOMAIN result[h].template_instantiations :
           /\ k \in DOMAIN template_instantiations
           /\ result[h].template_instantiations[k] = template_instantiations[k]
           /\ \E i \in 1..Len(types) :
                is_class(types[i]) /\ types[i].name = k /\ types[i].header = h
    /\ \A k \in DOMAIN template_instantiations :
         \A i \in 1..Len(types) :
           (is_class(types[i]) /\ types[i].name = k) => types[i].header \in HoldersOf(k)

\* A split of a model whose registry has a key of a class declared in one
\* header, an enum of the same name declared in the other, and a key that
\* names no type.
C6_Witness ==
  /\ Split
  /\ DOMAIN template_instantiations = RegistryKeys
  /\ \E i, j \in 1..Len(types) :
       /\ is_class(types[i]) /\ ~is_class(types[j])
       /\ types[i].name = types[j].name
       /\ types[i].header # types[j].header
       /\ HoldersOf(types[i].name) = {types[i].header}

\* The first class-kind type of the given name in the list of types.
FirstClassNamed(name) ==
  CHOOSE i \in 1..Len(types) :
    /\ is_class(types[i]) /\ types[i].name = name
    /\ \A i2 \in 1..(i - 1) : ~(is_class(types[i2]) /\ types[i2].name = name)

\* C17: a run of ensure_explicit_destructors keeps the methods it found and
\* appends only destructors that are non-virtual, public, non-static, without
\* arguments, scoped to a class-kind type that had no destructor scoped to it,
\* one for each such class name, with the header of that class as origin; so
\* a class with a destructor gets none and an enum gets none.
C17_SynthesizedDestructors ==
  [][runs' = runs + 1 =>
       LET n == Len(methods) IN
         /\ Len(methods') >= n
         /\ SubSeq(methods', 1, n) = methods
         /\ \A k \in (n + 1)..Len(methods') :
              LET m == methods'[k] IN
                /\ m.is_destructor /\ ~m.is_virtual /\ ~m.is_static
                /\ m.visibility = "Public"
                /\ m.arguments = << >>
                /\ m.scope.kind = "Class"
                /\ \E i \in 1..Len(types) : is_class(types[i]) /\ types[i].name = m.scope.name
                /\ m.origin = IncludeFile(types[FirstClassNamed(m.scope.name)].header)
                /\ \A j \in 1..n : ~(methods[j].is_destructor /\ methods[j].scope = m.scope)
                /\ \A k2 \in (n + 1)..Len(methods') : k2 # k => methods'[k2].scope # m.scope]_vars

\* After a run on an enum and a class of the same name declared in another
\* header: one destructor was synthesized, with the header of the class.
C17_Witness ==
  /\ runs = 1
  /\ \E i, j \in 1..Len(types) :
       /\ ~is_class(types[i]) /\ is_class(types[j])
       /\ types[i].name = types[j].name /\ types[i].header # types[j].header
       /\ Cardinality({k \in 1..Len(methods) : IsSynthesized(methods[k])}) = 1
       /\ \E k \in 1..Len(methods) :
            IsSynthesized(methods[k]) /\ methods[k].origin = IncludeFile(types[j].header)

\* C19: split_by_headers never panics: every unwrap finds its key; and
\* ensure_explicit_destructors has no step that can panic.
C19_NoPanic == result # Panic

\* A split that completed on a model with two types of one name, a header
\* that only one method names, and a registry key that names no type.
C19_Witness ==
  /\ Split
  /\ \E i, j \in 1..Len(types) : i # j /\ types[i].name = types[j].name
  /\ \E h \in Partitions : Len(result[h].methods) = 1 /\ result[h].types = << >>
  /\ \E k \in DOMAIN template_instantiations : \A i \in 1..Len(types) : types[i].name # k


(***************************************************************************)
(* CppIterator: the C++ operations it calls.  A position stands for a C++  *)
(* iterator object; the element a position points to is identified by the  *)
(* position.                                                               *)
(***************************************************************************)

\* One C++ call as recorded in ops: the operation, the field it is called on
\* and the position that field holds when it is called.
CppCall(op, field, pos) == [op |-> op, on |-> field, at |-> pos]

\* A call in progress: the two fields and the C++ calls made so far.
Frame(it) == [begin |-> it.begin, end |-> it.end, ops |-> << >>]

\* inner.inc() on self.begin
inc_begin(f) ==
  [f EXCEPT !.begin = @ + 1, !.ops = Append(@, CppCall("inc", "begin", f.begin))]

\* inner.dec() on self.end
dec_end(f) ==
  [f EXCEPT !.end = @ - 1, !.ops = Append(@, CppCall("dec", "end", f.end))]

\* inner.indirection() on self.begin
indirection_begin(f) ==
  [f EXCEPT !.ops = Append(@, CppCall("indirection", "begin", f.begin))]

\* inner.indirection() on self.end
indirection_end(f) ==
  [f EXCEPT !.ops = Append(@, CppCall("indirection", "end", f.end))]

\* The value of the last indirection of a frame.
Value(f) == f.ops[CHOOSE i \in 1..Len(f.ops) :
                    /\ f.ops[i].op = "indirection"
                    /\ \A j \in (i + 1)..Len(f.ops) : f.ops[j].op # "indirection"].at

Return(f, r) == [begin |-> f.begin, end |-> f.end, ops |-> f.ops, ret |-> r]

(***************************************************************************)
(* impl Iterator for CppIterator                                           *)
(***************************************************************************)
\* next advancing before it dereferences.
next_IncFirst(it) ==
  IF it.begin = it.end THEN Return(Frame(it), None)
  ELSE LET f == indirection_begin(inc_begin(Frame(it)))
       IN Return(f, Some(Value(f)))

\* next that dereferences and does not advance.
next_NoInc(it) ==
  IF it.begin = it.end THEN Return(Frame(it), None)
  ELSE LET f == indirection_begin(Frame(it))
       IN Return(f, Some(Value(f)))

\* next testing the order of the positions, not their equality.
next_OrderTest(it) ==
  IF it.begin >= it.end THEN Return(Frame(it), None)
  ELSE LET f == inc_begin(indirection_begin(Frame(it)))
       IN Return(f, Some(Value(f)))

\* next that advances begin although it returns None.
next_IncOnNone(it) ==
  IF it.begin = it.end THEN Return(inc_begin(Frame(it)), None)
  ELSE LET f == inc_begin(indirection_begin(Frame(it)))
       IN Return(f, Some(Value(f)))

next(it) ==
  IF it.begin = it.end THEN Return(Frame(it), None)
  ELSE LET f == inc_begin(indirection_begin(Frame(it)))
       IN Return(f, Some(Value(f)))

(***************************************************************************)
(* impl DoubleEndedIterator for CppIterator                                *)
(***************************************************************************)
\* next_back dereferencing before it retreats.
next_back_DerefFirst(it) ==
  IF it.begin = it.end THEN Return(Frame(it), None)
  ELSE LET f == dec_end(indirection_end(Frame(it)))
       IN Return(f, Some(Value(f)))

\* next_back that retreats by two positions when it can.
next_back_DecTwice(it) ==
  IF it.begin = it.end THEN Return(Frame(it), None)
  ELSE LET f1 == dec_end(Frame(it))
           f == indirection_end(IF f1.end = f1.begin THEN f1 ELSE dec_end(f1))
       IN Return(f, Some(Value(f)))

next_back(it) ==
  IF it.begin = it.end THEN Return(Frame(it), None)
  ELSE LET f == indirection_end(dec_end(Frame(it)))
       IN Return(f, Some(Value(f)))

(***************************************************************************)
(* CppIterator: the state machine.                                         *)
(***************************************************************************)
RangeLen == range[2] - range[1]

\* cpp_iter(begin, end) over a valid range of the container.
InitIter ==
  /\ \E b \in 0..MaxPos : \E e \in b..MaxPos :
       begin = b /\ end = e /\ range = <<b, e>>
  /\ ret = NotCalled
  /\ ops = << >>
  /\ yielded = << >>
  /\ calls = << >>
  /\ ub = FALSE
  /\ DataIdle /\ TomlIdle /\ CaptionsIdle /\ WriterIdle /\ LauncherIdle

Apply(r, name) ==
  /\ begin' = r.begin
  /\ end' = r.end
  /\ ret' = r.ret
  /\ ops' = r.ops
  /\ yielded' = IF r.ret.some THEN Append(yielded, r.ret.value) ELSE yielded
  /\ calls' = Append(calls, name)
  /\ UNCHANGED <<range, ub>>
  /\ UNCHANGED outsideIter

\* iterator.next()
CallNext ==
  /\ Len(calls) < RangeLen + MaxExtraCalls
  /\ Apply(next([begin |-> begin, end |-> end]), "next")

\* iterator.next_back()
CallNextBack ==
  /\ Len(calls) < RangeLen + MaxExtraCalls
  /\ Apply(next_back([begin |-> begin, end |-> end]), "next_back")

NextIter == CallNext \/ CallNextBack

SpecIter == InitIter /\ [][NextIter]_vars

(***************************************************************************)
(* CppIterator built from positions that are no valid range: begin is past *)
(* end.  The container's elements are at 0..MaxPos-1; MaxPos is its        *)
(* past-the-end position, where indirection and inc are undefined.         *)
(***************************************************************************)
InContainer(pos) == 0 <= pos /\ pos < MaxPos

\* What an undefined indirection yields, and the end of the process by it.
Undefined == "undefined"
Crashed == [crashed |-> TRUE]

\* cpp_iter(begin, end) with begin past end.
InitIterPastEnd ==
  /\ \E e \in 0..MaxPos : \E b \in (e + 1)..MaxPos :
       begin = b /\ end = e /\ range = <<b, e>>
  /\ ret = NotCalled
  /\ ops = << >>
  /\ yielded = << >>
  /\ calls = << >>
  /\ ub = FALSE
  /\ DataIdle /\ TomlIdle /\ CaptionsIdle /\ WriterIdle /\ LauncherIdle

\* iterator.next() where every C++ call it makes is defined.
CallNextDefined ==
  /\ ret # Crashed
  /\ Len(calls) < MaxPos + MaxExtraCalls
  /\ begin = end \/ InContainer(begin)
  /\ Apply(next([begin |-> begin, end |-> end]), "next")

\* iterator.next() with begin at the past-the-end position of the container
\* and not equal to end: the indirection and the inc are undefined, so the
\* process ends, or the call yields anything and leaves begin anywhere.
CallNextUndefined ==
  /\ ret # Crashed
  /\ Len(calls) < MaxPos + MaxExtraCalls
  /\ begin # end /\ ~InContainer(begin)
  /\ ub' = TRUE
  /\ calls' = Append(calls, "next")
  /\ ops' = <<CppCall("indirection", "begin", begin), CppCall("inc", "begin", begin)>>
  /\ \/ ret' = Crashed /\ UNCHANGED <<begin, yielded>>
     \/ \E p \in 0..MaxPos :
          /\ begin' = p
          /\ ret' = Some(Undefined)
          /\ yielded' = Append(yielded, Undefined)
  /\ UNCHANGED <<end, range>>
  /\ UNCHANGED outsideIter

NextIterPastEnd == CallNextDefined \/ CallNextUndefined

SpecIterPastEnd == InitIterPastEnd /\ [][NextIterPastEnd]_vars

(***************************************************************************)
(* CppIterator: properties.                                                *)
(***************************************************************************)
Min(a, b) == IF a < b THEN a ELSE b
Last(seq) == seq[Len(seq)]
Only(name) == calls # << >> /\ \A i \in 1..Len(calls) : calls[i] = name
Called(name) == \E i \in 1..Len(calls) : calls[i] = name

\* C7: with only next called, or only next_back called, the first L calls
\* yield an element each and every later call returns None.
C7_ExactlyL ==
  (Only("next") \/ Only("next_back")) =>
    /\ Len(yielded) = Min(Len(calls), RangeLen)
    /\ ret = None <=> Len(calls) > RangeLen

\* next_back alone was called on a range of at least two elements until it
\* returned None.
C7_Witness ==
  /\ Only("next_back")
  /\ RangeLen >= 2
  /\ Len(yielded) = RangeLen
  /\ ret = None

\* C8: under every interleaving the elements yielded are at most L, no
\* position is yielded twice, and begin does not pass end.
C8_Interleaving ==
  /\ Len(yielded) <= RangeLen
  /\ \A i, j \in 1..Len(yielded) : i # j => yielded[i] # yielded[j]
  /\ begin <= end

\* Both methods were called on a range of at least three elements, all of
\* them were yielded, and a further call returned None.
C8_Witness ==
  /\ Called("next") /\ Called("next_back")
  /\ RangeLen >= 3
  /\ Len(yielded) = RangeLen
  /\ ret = None

IsCall(name) == calls' = Append(calls, name)

\* C9: next returns None when begin equals end; otherwise it dereferences
\* begin where it stands, then advances begin by one, and yields the element
\* that was at begin before the advance.
C9_ForwardStep ==
  [][IsCall("next") =>
       IF begin = end
       THEN ret' = None /\ ops' = << >>
       ELSE /\ ops' = <<CppCall("indirection", "begin", begin),
                        CppCall("inc", "begin", begin)>>
            /\ ret' = Some(begin)
            /\ begin' = begin + 1]_vars

\* A next that yielded an element after an earlier call had moved begin.
C9_Witness ==
  /\ Len(calls) >= 2
  /\ Last(calls) = "next"
  /\ ret # None
  /\ ret.value > range[1]
  /\ begin = ret.value + 1

\* C10: next_back returns None when begin equals end; otherwise it retreats
\* end by one, then dereferences end where it then stands and yields that
\* element; it never dereferences the position the range ends at.
C10_ReverseStep ==
  [][IsCall("next_back") =>
       /\ IF begin = end
          THEN ret' = None /\ ops' = << >>
          ELSE /\ ops' = <<CppCall("dec", "end", end),
                           CppCall("indirection", "end", end - 1)>>
               /\ ret' = Some(end - 1)
               /\ end' = end - 1
       /\ \A i \in 1..Len(ops') :
            ops'[i].op = "indirection" => ops'[i].at # range[2]]_vars

\* The first next_back on a range that is not empty: end stood at the
\* position the range ends at and the element before it was yielded.
C10_Witness ==
  /\ calls = <<"next_back">>
  /\ ret = Some(range[2] - 1)
  /\ end = range[2] - 1


(***************************************************************************)
(* RustFunctionCaptionStrategy                                             *)
(***************************************************************************)
\* The variants of the enum.
RustFunctionCaptionStrategy ==
  {"SelfOnly", "UnsafeOnly", "SelfAndArgTypes", "SelfAndArgNames", "SelfAndIndex"}

\* all() with the first two strategies in the other order.
all_UnsafeFirst ==
  <<"UnsafeOnly", "SelfOnly", "SelfAndArgTypes", "SelfAndArgNames", "SelfAndIndex">>

\* RustFunctionCaptionStrategy::all()
all ==
  <<"SelfOnly", "UnsafeOnly", "SelfAndArgTypes", "SelfAndArgNames", "SelfAndIndex">>

\* A caller: it has called all() `calls` times, holds the slice of the last
\* call and has taken its first `cursor` strategies; `first` is the slice of
\* the first call.
InitCaptions ==
  /\ captions = [calls |-> 0, returned |-> << >>, first |-> << >>, cursor |-> 0]
  /\ DataIdle /\ IterIdle /\ TomlIdle /\ WriterIdle /\ LauncherIdle

\* let strategies = RustFunctionCaptionStrategy::all();
CallAll ==
  /\ captions.calls < MaxAllCalls
  /\ captions' = [calls |-> captions.calls + 1,
                  returned |-> all,
                  first |-> IF captions.calls = 0 THEN all ELSE captions.first,
                  cursor |-> 0]
  /\ UNCHANGED outsideCaptions

\* The caller takes the next strategy of the slice, in the slice's order.
TakeStrategy ==
  /\ captions.cursor < Len(captions.returned)
  /\ captions' = [captions EXCEPT !.cursor = @ + 1]
  /\ UNCHANGED outsideCaptions

NextCaptions == CallAll \/ TakeStrategy

SpecCaptions == InitCaptions /\ [][NextCaptions]_vars

\* C20: all() lists every strategy exactly once, in the order receiver type
\* only, safety qualifier only, receiver and argument types, receiver and
\* argument names, receiver and index; every call returns the list of the
\* first call.
C20_AllInPriorityOrder ==
  captions.calls >= 1 =>
    LET list == captions.returned IN
      /\ Len(list) = 5
      /\ list[1] = "SelfOnly"
      /\ list[2] = "UnsafeOnly"
      /\ list[3] = "SelfAndArgTypes"
      /\ list[4] = "SelfAndArgNames"
      /\ list[5] = "SelfAndIndex"
      /\ \A v \in RustFunctionCaptionStrategy :
           Cardinality({i \in 1..Len(list) : list[i] = v}) = 1
      /\ list = captions.first

\* A caller that called all() twice and took every strategy of the second
\* slice.
C20_Witness ==
  /\ captions.calls = 2
  /\ captions.cursor = Len(captions.returned)
  /\ captions.cursor = Cardinality(RustFunctionCaptionStrategy)

(***************************************************************************)
(* recursive_merge_toml                                                    *)
(***************************************************************************)
\* toml::Value: the variants String, Integer, Array and Table. A value carries
\* its variant, the text of a scalar, the items of an array and the entries of
\* a table; the fields of the other variants are empty.
TomlString(str) == [type |-> "String", scalar |-> str, items |-> << >>, table |-> EmptyMap]
TomlInteger(digits) == [type |-> "Integer", scalar |-> digits, items |-> << >>, table |-> EmptyMap]
TomlArray(items) == [type |-> "Array", scalar |-> "", items |-> items, table |-> EmptyMap]
TomlTable(map) == [type |-> "Table", scalar |-> "", items |-> << >>, table |-> map]

\* toml::Value::same_type
same_type(a, b) == a.type = b.type

\* The values the merge is tried on: scalars, arrays of strings, tables of
\* those, and tables of such tables.
TomlKeys == {"k1", "k2"}
TomlScalars == {TomlString("g"), TomlString("u"), TomlInteger("1")}
TomlArrays == {TomlArray(items) : items \in SeqsUpTo({TomlString("g"), TomlString("u")}, MaxArrayLen)}
TomlLeaves == TomlScalars \cup TomlArrays
TablesOf(keys, values) == {TomlTable(map) : map \in UNION {[ks -> values] : ks \in SUBSET keys}}
TomlInnerTables == TablesOf(TomlKeys, TomlLeaves)
TomlOuterTables == TablesOf({"k1"}, TomlInnerTables)
TomlValues == TomlLeaves \cup TomlInnerTables \cup TomlOuterTables

\* MergeArrays with b's entries first.
MergeArraysReversed(a_array, b_array) == b_array \o a_array

\* a_array.append(&mut b_array)
MergeArrays(a_array, b_array) == a_array \o b_array

\* recursive_merge_toml; the loop over b_table treats each key on its own.
RECURSIVE recursive_merge_toml(_, _)
recursive_merge_toml(a, b) ==
  IF same_type(a, b)
  THEN IF a.type = "Array" THEN TomlArray(MergeArrays(a.items, b.items))
       ELSE IF a.type = "Table"
       THEN TomlTable([key \in (DOMAIN a.table) \cup (DOMAIN b.table) |->
                         IF key \in DOMAIN b.table
                         THEN IF key \in DOMAIN a.table
                              THEN recursive_merge_toml(a.table[key], b.table[key])
                              ELSE b.table[key]
                         ELSE a.table[key]])
       ELSE b
  ELSE b

\* Any two values as arguments.
InitToml ==
  /\ \E a \in TomlValues : \E b \in TomlValues :
       toml = [pc |-> "args", a |-> a, b |-> b, merged |-> TomlTable(EmptyMap)]
  /\ DataIdle /\ IterIdle /\ CaptionsIdle /\ WriterIdle /\ LauncherIdle

\* merged = recursive_merge_toml(a, b)
MergeToml ==
  /\ toml.pc = "args"
  /\ toml' = [toml EXCEPT !.pc = "merged", !.merged = recursive_merge_toml(toml.a, toml.b)]
  /\ UNCHANGED outsideToml

NextToml == MergeToml

SpecToml == InitToml /\ [][NextToml]_vars

\* What the claim says of the merge m of g and u.
RECURSIVE DeepMerged(_, _, _)
DeepMerged(g, u, m) ==
  IF g.type = "Array" /\ u.type = "Array"
  THEN /\ m.type = "Array"
       /\ Len(m.items) = Len(g.items) + Len(u.items)
       /\ \A i \in 1..Len(g.items) : m.items[i] = g.items[i]
       /\ \A i \in 1..Len(u.items) : m.items[Len(g.items) + i] = u.items[i]
  ELSE IF g.type = "Table" /\ u.type = "Table"
  THEN /\ m.type = "Table"
       /\ DOMAIN m.table = (DOMAIN g.table) \cup (DOMAIN u.table)
       /\ \A k \in (DOMAIN g.table) \ (DOMAIN u.table) : m.table[k] = g.table[k]
       /\ \A k \in (DOMAIN u.table) \ (DOMAIN g.table) : m.table[k] = u.table[k]
       /\ \A k \in (DOMAIN g.table) \cap (DOMAIN u.table) :
            DeepMerged(g.table[k], u.table[k], m.table[k])
  ELSE IF g.type = u.type
  THEN m = u
  ELSE TRUE

\* C12: recursive_merge_toml(G, U) gives, for two arrays, G's entries followed
\* by U's; for two tables, the keys of both, a key of one side with its value
\* and a key of both sides with the merge of its two values; for two scalars of
\* one type, U's value.
C12_DeepMerge ==
  toml.pc = "merged" => DeepMerged(toml.a, toml.b, toml.merged)

\* A merge of two tables whose common key holds tables with a common key of
\* two arrays that are not empty and a key that only G has.
C12_Witness ==
  /\ toml.pc = "merged"
  /\ toml.a.type = "Table" /\ toml.b.type = "Table"
  /\ \E k \in (DOMAIN toml.a.table) \cap (DOMAIN toml.b.table) :
       LET g == toml.a.table[k]
           u == toml.b.table[k]
       IN /\ g.type = "Table" /\ u.type = "Table"
          /\ \E k1 \in (DOMAIN g.table) \cap (DOMAIN u.table) :
               /\ g.table[k1].type = "Array" /\ u.table[k1].type = "Array"
               /\ g.table[k1].items # << >> /\ u.table[k1].items # << >>
               /\ g.table[k1].items # u.table[k1].items
          /\ (DOMAIN g.table) \ (DOMAIN u.table) # {}

(***************************************************************************)
(* crate_writer::run                                                       *)
(***************************************************************************)
\* The paths of the crate's output directory; a directory is the parent of
\* the paths below it.
database_path == "database.json"
Parent(path) ==
  IF path \in {"c_lib/CMakeLists.txt", "c_lib/global.h", "c_lib/file1.cpp", "c_lib/sized_types.cxx"}
  THEN "c_lib"
  ELSE IF path = "src/lib.rs" THEN "src" ELSE ""

\* A tree maps each path that exists to the run that wrote it.
Earlier == "earlier"
Current == "current"
EarlierPaths == {database_path, "Cargo.toml", "c_lib", "c_lib/file1.cpp", "build_script_data.json"}
EarlierTrees ==
  {[path \in paths |-> Earlier] :
     paths \in {ps \in SUBSET EarlierPaths : \A path \in ps : Parent(path) = "" \/ Parent(path) \in ps}}

\* read_dir: the entries of the directory itself.
TopLevel(tree) == {path \in DOMAIN tree : Parent(path) = ""}

\* remove_dir_all / remove_file
Remove(tree, path) ==
  [other \in {q \in DOMAIN tree : q # path /\ Parent(q) # path} |-> tree[other]]

\* The body of the clearing loop with the database file removed like any
\* other entry.
ClearedNoSkip(tree, path) == Remove(tree, path)

\* The body of the clearing loop for one entry: the database file is skipped.
Cleared(tree, path) == IF path = database_path THEN tree ELSE Remove(tree, path)

\* create_file, create_dir, copy_file, save_json: the path exists afterwards
\* with what this run wrote.
Written(tree, paths) ==
  [path \in (DOMAIN tree) \cup paths |-> IF path \in paths THEN Current ELSE tree[path]]

\* CppFfiItem and RustItem, as far as run looks at them.
CppPath(names) == [i \in 1..Len(names) |-> [name |-> names[i]]]
FfiItem(is_function, names) == [is_function |-> is_function, path |-> CppPath(names)]
FfiItemValues == {FfiItem(TRUE, <<"f1">>), FfiItem(TRUE, <<"f2">>), FfiItem(FALSE, <<"q1">>)}
RustItem(kind, path) == [kind |-> kind, path |-> path]
RustItemValues ==
  {RustItem("FfiFunction", <<"ffi", "f1">>), RustItem("FfiFunction", <<"ffi", "f2">>),
   RustItem("Function", <<"ffi", "f2">>)}

\* used_ffi_functions collected from every Rust item.
used_ffi_functions_AnyItem(rust_items) ==
  {Last(rust_items[i].path) : i \in 1..Len(rust_items)}

\* used_ffi_functions: the last path component of each RustItem::FfiFunction.
used_ffi_functions(rust_items) ==
  {Last(rust_items[i].path) : i \in {j \in 1..Len(rust_items) : rust_items[j].kind = "FfiFunction"}}

\* The items handed to generate_cpp_file.
FilteredFfiItems(ffi_items, rust_items) ==
  LET Keep(item) == \/ ~item.is_function
                    \/ Last(item.path).name \in used_ffi_functions(rust_items)
  IN SelectSeq(ffi_items, Keep)

\* The steps of run after the clearing loop, in the order of the code, and
\* the paths each one writes.
Steps ==
  <<"build_rs", "cargo_toml", "template", "src_dir", "update_cargo_toml", "c_lib_dir",
    "cmakelists", "global_header", "cpp_file", "sized_types", "rust", "cargo_fmt",
    "rustfmt", "build_script_data">>
StepAfter(step) ==
  LET i == CHOOSE j \in 1..Len(Steps) : Steps[j] = step
  IN IF i = Len(Steps) THEN "done" ELSE Steps[i + 1]
Writes(step, w) ==
  CASE step = "build_rs" -> {"build.rs"}
    [] step = "cargo_toml" -> {"Cargo.toml"}
    [] step = "template" -> IF w.template_c_lib THEN {"c_lib"} ELSE {}
    [] step = "src_dir" -> IF "src" \in DOMAIN w.tree THEN {} ELSE {"src"}
    [] step = "c_lib_dir" -> IF "c_lib" \in DOMAIN w.tree THEN {} ELSE {"c_lib"}
    [] step = "cmakelists" -> {"c_lib/CMakeLists.txt"}
    [] step = "global_header" -> {"c_lib/global.h"}
    [] step = "cpp_file" -> {"c_lib/file1.cpp"}
    [] step = "sized_types" -> {"c_lib/sized_types.cxx"}
    [] step = "rust" -> {"src/lib.rs"}
    [] step = "build_script_data" -> {"build_script_data.json"}
    [] OTHER -> {}
WritingSteps ==
  {"build_rs", "cargo_toml", "template", "src_dir", "update_cargo_toml", "c_lib_dir",
   "cmakelists", "global_header", "sized_types", "rust"}
NotRendered == [rendered |-> FALSE]
Rendered(items) == [rendered |-> TRUE, items |-> items]

\* run is entered with some output directory, database and crate template.
InitCrateWriter ==
  /\ \E tree \in EarlierTrees, template_c_lib \in BOOLEAN,
        ffi_items \in SeqsUpTo(FfiItemValues, MaxFfiItems),
        rust_items \in SeqsUpTo(RustItemValues, MaxRustItems) :
       writer = [pc |-> "read_dir", tree |-> tree, before |-> tree, todo |-> {},
                 template_c_lib |-> template_c_lib, ffi_items |-> ffi_items,
                 rust_items |-> rust_items, shim |-> NotRendered, ran |-> << >>]
  /\ DataIdle /\ IterIdle /\ TomlIdle /\ CaptionsIdle /\ LauncherIdle

\* The step at hand returned Err: `?` returns it from run.
Fail(step) == writer' = [writer EXCEPT !.pc = "failed", !.ran = Append(@, step)]

\* crate_path and read_dir
ReadDir ==
  /\ writer.pc = "read_dir"
  /\ \/ Fail("read_dir")
     \/ writer' = [writer EXCEPT !.pc = "clear", !.todo = TopLevel(writer.tree),
                                 !.ran = Append(@, "read_dir")]
  /\ UNCHANGED outsideWriter

\* One round of the loop over the directory's entries, or its end.
Clear ==
  /\ writer.pc = "clear"
  /\ \/ /\ writer.todo = {}
        /\ writer' = [writer EXCEPT !.pc = Steps[1]]
     \/ \E path \in writer.todo :
          \/ writer' = [writer EXCEPT !.tree = Cleared(@, path), !.todo = @ \ {path},
                                      !.ran = Append(@, "clear")]
          \/ Fail("clear")
  /\ UNCHANGED outsideWriter

\* A step that only writes files: the parts of generate_crate_template and
\* generate_c_lib_template, update_cargo_toml, the c_lib directory, the size
\* requester and rust_code_generator::generate.
WriteStep ==
  /\ writer.pc \in WritingSteps
  /\ \/ Fail(writer.pc)
     \/ writer' = [writer EXCEPT !.pc = StepAfter(writer.pc),
                                 !.tree = Written(@, Writes(writer.pc, writer)),
                                 !.ran = Append(@, writer.pc)]
  /\ UNCHANGED outsideWriter

\* generate_cpp_file on the filtered FFI items.
GenerateCppFile ==
  /\ writer.pc = "cpp_file"
  /\ \/ Fail("cpp_file")
     \/ writer' = [writer EXCEPT !.pc = StepAfter("cpp_file"),
                                 !.shim = Rendered(FilteredFfiItems(writer.ffi_items, writer.rust_items)),
                                 !.tree = Written(@, Writes("cpp_file", writer)),
                                 !.ran = Append(@, "cpp_file")]
  /\ UNCHANGED outsideWriter

\* run_command for cargo fmt and for rustfmt.
RunFormatter ==
  /\ writer.pc \in {"cargo_fmt", "rustfmt"}
  /\ \/ Fail(writer.pc)
     \/ writer' = [writer EXCEPT !.pc = StepAfter(writer.pc), !.ran = Append(@, writer.pc)]
  /\ UNCHANGED outsideWriter

\* save_json of build_script_data.json, then Ok(()).
SaveBuildScriptData ==
  /\ writer.pc = "build_script_data"
  /\ \/ Fail("build_script_data")
     \/ writer' = [writer EXCEPT !.pc = "done",
                                 !.tree = Written(@, Writes("build_script_data", writer)),
                                 !.ran = Append(@, "build_script_data")]
  /\ UNCHANGED outsideWriter

NextCrateWriter ==
  \/ ReadDir
  \/ Clear
  \/ WriteStep
  \/ GenerateCppFile
  \/ RunFormatter
  \/ SaveBuildScriptData

SpecCrateWriter == InitCrateWriter /\ [][NextCrateWriter]_vars

\* The FFI functions among items, and whether a RustItem::FfiFunction of the
\* database names the function.
FfiFunctions(items) == {item \in Elems(items) : item.is_function}
Referenced(item, rust_items) ==
  \E i \in 1..Len(rust_items) :
    /\ rust_items[i].kind = "FfiFunction"
    /\ Last(rust_items[i].path) = Last(item.path).name

\* C11: the FFI functions handed to generate_cpp_file are exactly the FFI
\* functions of the database that a RustItem::FfiFunction refers to, and
\* file1.cpp is only ever written from the filtered items.
C11_FilteredBeforeRendering ==
  /\ writer.shim.rendered =>
       FfiFunctions(writer.shim.items) =
         {item \in FfiFunctions(writer.ffi_items) : Referenced(item, writer.rust_items)}
  /\ ("c_lib/file1.cpp" \in DOMAIN writer.tree /\ writer.tree["c_lib/file1.cpp"] = Current)
       => writer.shim.rendered

\* file1.cpp was rendered from a database with a referenced and an
\* unreferenced FFI function.
C11_Witness ==
  /\ writer.shim.rendered
  /\ writer.tree["c_lib/file1.cpp"] = Current
  /\ \E item \in FfiFunctions(writer.ffi_items) : Referenced(item, writer.rust_items)
  /\ \E item \in FfiFunctions(writer.ffi_items) : ~Referenced(item, writer.rust_items)
  /\ FfiFunctions(writer.shim.items) # {}

\* C14 as stated: when run fails, every path an earlier successful run left
\* is still there as that run wrote it.
C14_AsStated ==
  (writer.pc = "failed" /\ "build_script_data.json" \in DOMAIN writer.before)
    => \A path \in DOMAIN writer.before :
         path \in DOMAIN writer.tree /\ writer.tree[path] = Earlier

\* C16: once the clearing loop is over nothing of the earlier tree is left but
\* the database file, nothing is written before that, and the database file
\* stays as it was.
C16_ClearedBeforeGenerating ==
  /\ (\/ writer.pc \notin {"read_dir", "clear", "failed"}
      \/ \E path \in DOMAIN writer.tree : writer.tree[path] = Current)
       => \A path \in DOMAIN writer.tree : writer.tree[path] = Earlier => path = database_path
  /\ database_path \in DOMAIN writer.before
       => database_path \in DOMAIN writer.tree /\ writer.tree[database_path] = Earlier

\* A finished run over a directory that held the database file, a file and a
\* directory with a file in it.
C16_Witness ==
  /\ writer.pc = "done"
  /\ {database_path, "Cargo.toml", "c_lib", "c_lib/file1.cpp"} \subseteq DOMAIN writer.before
  /\ writer.tree[database_path] = Earlier
  /\ writer.tree["c_lib/file1.cpp"] = Current

\* A failed step of crate_writer::run is the last one that ran, and
\* build_script_data.json is not written.
CrateWriterFailureIsFinal ==
  [][writer.pc = "failed" =>
       /\ writer' = writer
       /\ ~("build_script_data.json" \in DOMAIN writer.tree
             /\ writer.tree["build_script_data.json"] = Current)]_vars

(***************************************************************************)
(* launcher::run and run_command                                           *)
(***************************************************************************)
\* How one start of an external process ends: exit status zero, another exit
\* status, or no process at all (Err from output() or status()).
ExitZero == "exit zero"
ExitNonZero == "exit non-zero"
SpawnError == "spawn error"
Outcomes == {ExitZero, ExitNonZero, SpawnError}
Execution(command, outcome) == [command |-> command, outcome |-> outcome]

\* run_command: first and second are the outcomes of the first and the second
\* start of the process. With fetch_stdout, output() starts the process and
\* only its Err is looked at, then status() starts it again.
run_command(command, fetch_stdout, first, second) ==
  IF fetch_stdout
  THEN IF first = SpawnError
       THEN [executed |-> <<Execution(command, first)>>, panicked |-> TRUE]
       ELSE [executed |-> <<Execution(command, first), Execution(command, second)>>,
             panicked |-> second # ExitZero]
  ELSE [executed |-> <<Execution(command, first)>>, panicked |-> first # ExitZero]

\* The cache file cpp_data.json: missing, holding a model that deserializes,
\* or holding something that does not.
CacheAbsent == "absent"
CacheValid == "valid"
CacheStale == "stale"
\* Which of the two Qt header directories exists.
HeaderDirs == {"dir", "dir2", "none"}
NoDir == "None"

\* run is entered with some library, environment and output directory.
InitLauncher ==
  /\ \E is_qt_library \in BOOLEAN, exists \in HeaderDirs, skip_processing \in BOOLEAN,
        cache \in {CacheAbsent, CacheValid, CacheStale},
        invokation_method \in {"CommandLine", "BuildScript"} :
       launcher = [pc |-> "start", is_qt_library |-> is_qt_library, exists |-> exists,
                   skip_processing |-> skip_processing, cache |-> cache,
                   invokation_method |-> invokation_method,
                   qt_this_lib_headers_dir |-> NoDir, warnings |-> 0,
                   executions |-> << >>, ran |-> << >>, parsed |-> FALSE,
                   loaded |-> FALSE, cargo_left |-> << >>,
                   cache_before |-> cache, cache_writes |-> << >>]
  /\ DataIdle /\ IterIdle /\ TomlIdle /\ CaptionsIdle /\ WriterIdle

\* The step at hand panicked: run is over.
Panicked(l, step) == [l EXCEPT !.pc = "panicked", !.ran = Append(@, step)]

\* run_command at the step the launcher is at; on success the run goes on
\* with the step `after`.
Command(step, command, fetch_stdout, after) ==
  \E first \in Outcomes, second \in Outcomes :
    LET r == run_command(command, fetch_stdout, first, second)
        l == [launcher EXCEPT !.executions = @ \o r.executed]
    IN launcher' = IF r.panicked
                   THEN Panicked(l, step)
                   ELSE [l EXCEPT !.pc = after, !.ran = Append(@, step)]

\* Reading spec.json and Cargo.toml; is_qt_library decides what follows.
Start ==
  /\ launcher.pc = "start"
  /\ launcher' = [launcher EXCEPT !.pc = IF launcher.is_qt_library THEN "qmake_headers" ELSE "processing",
                                  !.ran = Append(@, "start")]
  /\ UNCHANGED outsideLauncher

\* qmake -query QT_INSTALL_HEADERS and qmake -query QT_INSTALL_LIBS
QueryQmake ==
  /\ \/ /\ launcher.pc = "qmake_headers"
        /\ Command("qmake_headers", "qmake -query QT_INSTALL_HEADERS", TRUE, "qmake_libs")
     \/ /\ launcher.pc = "qmake_libs"
        /\ Command("qmake_libs", "qmake -query QT_INSTALL_LIBS", TRUE, "headers_dir")
  /\ UNCHANGED outsideLauncher

\* The library's own header directory: dir, else dir2, else a warning.
DetectHeadersDir ==
  /\ launcher.pc = "headers_dir"
  /\ launcher' = [launcher EXCEPT
                    !.pc = "processing",
                    !.ran = Append(@, "headers_dir"),
                    !.qt_this_lib_headers_dir = IF launcher.exists = "none" THEN NoDir ELSE launcher.exists,
                    !.warnings = IF launcher.exists = "none" THEN @ + 1 ELSE @]
  /\ UNCHANGED outsideLauncher

\* The parse branch writing the model to the cache file before it is
\* post-processed.
ParseHeaders_WriteFirst(l) ==
  IF l.is_qt_library /\ l.qt_this_lib_headers_dir = NoDir
  THEN Panicked([l EXCEPT !.parsed = TRUE, !.cache = CacheValid,
                          !.cache_writes = Append(@, "parsed")], "parse")
  ELSE [l EXCEPT !.pc = "c_lib", !.parsed = TRUE, !.cache = CacheValid,
                 !.cache_writes = Append(@, "parsed"), !.ran = Append(@, "parse")]

\* The parse branch: cpp_parser::run, fix_header_names for a Qt library (its
\* unwrap panics without a header directory), post_process, then the
\* post-processed model is written to cpp_data.json.
ParseHeaders(l) ==
  IF l.is_qt_library /\ l.qt_this_lib_headers_dir = NoDir
  THEN Panicked([l EXCEPT !.parsed = TRUE], "parse")
  ELSE [l EXCEPT !.pc = "c_lib", !.parsed = TRUE, !.cache = CacheValid,
                 !.cache_writes = Append(@, "post-processed"), !.ran = Append(@, "parse")]

\* skip_processing, or the model from cpp_data.json, or from cpp_parser::run.
LoadOrParse ==
  /\ launcher.pc = "processing"
  /\ launcher' =
       IF launcher.skip_processing
       THEN [launcher EXCEPT !.pc = "invoke", !.ran = Append(@, "skip")]
       ELSE IF launcher.cache # CacheAbsent
       THEN IF launcher.cache = CacheValid
            THEN [launcher EXCEPT !.pc = "c_lib", !.loaded = TRUE, !.ran = Append(@, "cache")]
            ELSE Panicked(launcher, "cache")
       ELSE ParseHeaders(launcher)
  /\ UNCHANGED outsideLauncher

\* The C wrapper library is generated into source.new and moved to source.
GenerateCLib ==
  /\ launcher.pc = "c_lib"
  /\ launcher' = [launcher EXCEPT !.pc = "cmake", !.ran = Append(@, "c_lib")]
  /\ UNCHANGED outsideLauncher

\* cmake, then make install, for the C wrapper library.
BuildCLib ==
  /\ \/ /\ launcher.pc = "cmake"
        /\ Command("cmake", "cmake", FALSE, "make")
     \/ /\ launcher.pc = "make"
        /\ Command("make", "make install", FALSE, "crate")
  /\ UNCHANGED outsideLauncher

\* The Rust crate is generated and moved into the output directory.
GenerateCrate ==
  /\ launcher.pc = "crate"
  /\ launcher' = [launcher EXCEPT !.pc = "invoke", !.ran = Append(@, "crate")]
  /\ UNCHANGED outsideLauncher

\* match env.invokation_method
Invoke ==
  /\ launcher.pc = "invoke"
  /\ launcher' = IF launcher.invokation_method = "CommandLine"
                 THEN [launcher EXCEPT !.pc = "cargo", !.cargo_left = <<"build", "test", "doc">>]
                 ELSE [launcher EXCEPT !.pc = "done", !.ran = Append(@, "println")]
  /\ UNCHANGED outsideLauncher

\* One round of the loop over cargo build, test and doc, or its end.
RunCargo ==
  /\ launcher.pc = "cargo"
  /\ IF launcher.cargo_left = << >>
     THEN launcher' = [launcher EXCEPT !.pc = "done"]
     ELSE \E first \in Outcomes, second \in Outcomes :
            LET r == run_command(Head(launcher.cargo_left), FALSE, first, second)
                l == [launcher EXCEPT !.executions = @ \o r.executed]
            IN launcher' = IF r.panicked
                           THEN Panicked(l, "cargo")
                           ELSE [l EXCEPT !.cargo_left = Tail(@), !.ran = Append(@, "cargo")]
  /\ UNCHANGED outsideLauncher

NextLauncher ==
  \/ Start
  \/ QueryQmake
  \/ DetectHeadersDir
  \/ LoadOrParse
  \/ GenerateCLib
  \/ BuildCLib
  \/ GenerateCrate
  \/ Invoke
  \/ RunCargo

SpecLauncher == InitLauncher /\ [][NextLauncher]_vars

\* C13 as stated: a start of a command that ends with a non-zero exit status
\* is the last thing the run does, and the run has panicked.
C13_AsStated ==
  \A i \in 1..Len(launcher.executions) :
    launcher.executions[i].outcome = ExitNonZero
      => launcher.pc = "panicked" /\ i = Len(launcher.executions)

\* C15 as stated: once the run has read a cache file that does not
\* deserialize, it has parsed the headers and has not panicked.
C15_AsStated ==
  (launcher.cache = CacheStale /\ launcher.ran # << >> /\ Last(launcher.ran) = "cache")
    => launcher.parsed /\ launcher.pc # "panicked"

\* C25: a call that returns None leaves begin and end as they were, a call
\* made when begin equals end returns None, a next that yields leaves end
\* as it was and a next_back that yields leaves begin as it was.
C25_ExhaustionStable ==
  [][(IsCall("next") \/ IsCall("next_back")) =>
       /\ ret' = None => (begin' = begin /\ end' = end)
       /\ begin = end => ret' = None
       /\ (IsCall("next") /\ ret' # None) => end' = end
       /\ (IsCall("next_back") /\ ret' # None) => begin' = begin]_vars

\* A range that was not empty, used up, and then asked once more from each
\* side: both calls returned None.
C25_Witness ==
  /\ RangeLen >= 1
  /\ Len(yielded) = RangeLen
  /\ Len(calls) = RangeLen + 2
  /\ calls[Len(calls) - 1] = "next"
  /\ Last(calls) = "next_back"
  /\ ret = None
  /\ begin = end

\* C24 as stated: no command of a run is started twice (the commands of one
\* run are all different, one per run_command call).
C24_AsStated ==
  \A i \in 1..Len(launcher.executions) : \A j \in 1..Len(launcher.executions) :
    i # j => launcher.executions[i].command # launcher.executions[j].command

\* C22 as stated: once a Qt library's run has found neither header directory,
\* a warning has been logged and the run does not panic at loading or
\* parsing the model.
C22_AsStated ==
  (launcher.is_qt_library /\ launcher.exists = "none"
     /\ \E i \in 1..Len(launcher.ran) : launcher.ran[i] = "headers_dir")
    => /\ launcher.warnings = 1
       /\ ~(launcher.pc = "panicked" /\ Last(launcher.ran) \in {"parse", "cache"}
            /\ launcher.cache # CacheStale)

\* The run took the branch that loads or parses the model; the generation of
\* the C wrapper library or of the crate is at hand or has started.
Processed == \E i \in 1..Len(launcher.ran) : launcher.ran[i] \in {"cache", "parse"}
Generating ==
  \/ launcher.pc \in {"c_lib", "cmake", "make", "crate"}
  \/ \E i \in 1..Len(launcher.ran) : launcher.ran[i] \in {"c_lib", "cmake", "make", "crate"}

\* C23: a run that finds cpp_data.json never calls the parser and never
\* writes the file; a run that does not find it parses the headers, and when
\* generation is at hand the post-processed model, and nothing else, has been
\* written to the file.
C23_ModelCaching ==
  /\ launcher.cache_before # CacheAbsent =>
       /\ ~launcher.parsed
       /\ launcher.cache_writes = << >>
       /\ launcher.cache = launcher.cache_before
  /\ (launcher.cache_before = CacheAbsent /\ Processed) => launcher.parsed
  /\ (launcher.cache_before = CacheAbsent /\ Generating) =>
       /\ launcher.parsed
       /\ launcher.cache_writes = <<"post-processed">>
       /\ launcher.cache = CacheValid

\* A Qt library's run without a cache file that parsed the headers and has
\* generated the crate.
C23_Witness ==
  /\ launcher.cache_before = CacheAbsent
  /\ launcher.is_qt_library
  /\ launcher.parsed
  /\ launcher.cache_writes = <<"post-processed">>
  /\ \E i \in 1..Len(launcher.ran) : launcher.ran[i] = "crate"

(***************************************************************************)
(* generate_crate_template: the Cargo.toml data                            *)
(***************************************************************************)
\* The dependency databases and the dependencies of the crate properties.
DepDatabase(crate_name, crate_version) == [crate_name |-> crate_name, crate_version |-> crate_version]
DepDatabaseValues == {DepDatabase("qt_core", "0.1"), DepDatabase("qt_gui", "0.2")}
NoPath == "None"
CargoDependency(name, version, local_path) == [name |-> name, version |-> version, local_path |-> local_path]
CargoDependencyValues == {CargoDependency("libc", "0.2", NoPath), CargoDependency("qt_core", "9.9", "/qt_core")}
\* crate_properties().custom_fields(): nothing, or one more dependency.
CustomFieldsValues ==
  {TomlTable(EmptyMap),
   TomlTable([key \in {"dependencies"} |-> TomlTable([name \in {"serde"} |-> TomlString("1.0")])])}

\* dep_value: the version, or a table of version and path.
dep_value(version, local_path, write_dependencies_local_paths) ==
  IF local_path = NoPath \/ ~write_dependencies_local_paths
  THEN TomlString(version)
  ELSE TomlTable([key \in {"version", "path"} |->
                    IF key = "version" THEN TomlString(version) ELSE TomlString(local_path)])

\* table.insert for each entry of a list, in order.
RECURSIVE InsertAll(_, _)
InsertAll(table, entries) ==
  IF entries = << >> THEN table
  ELSE InsertAll(MapInsert(table, Head(entries).key, Head(entries).value), Tail(entries))

\* The default dependencies without the dependency databases.
default_dependencies_OnlyCppUtils(c) ==
  IF ~c.should_remove_default_dependencies
  THEN MapInsert(EmptyMap, "cpp_utils",
                 dep_value("0.0", IF c.write_dependencies_local_paths THEN "/cpp_utils" ELSE NoPath,
                           c.write_dependencies_local_paths))
  ELSE EmptyMap

\* The first part of the dependencies table: cpp_utils and one entry per
\* dependency database, unless should_remove_default_dependencies().
default_dependencies(c) ==
  IF ~c.should_remove_default_dependencies
  THEN InsertAll(
         MapInsert(EmptyMap, "cpp_utils",
                   dep_value("0.0", IF c.write_dependencies_local_paths THEN "/cpp_utils" ELSE NoPath,
                             c.write_dependencies_local_paths)),
         [i \in 1..Len(c.dep_databases) |->
            [key |-> c.dep_databases[i].crate_name,
             value |-> dep_value(c.dep_databases[i].crate_version, "/" \o c.dep_databases[i].crate_name,
                                 c.write_dependencies_local_paths)]])
  ELSE EmptyMap

\* The dependencies table: the default ones, then crate_properties().dependencies().
dependencies(c) ==
  TomlTable(InsertAll(default_dependencies(c),
              [i \in 1..Len(c.dependencies) |->
                 [key |-> c.dependencies[i].name,
                  value |-> dep_value(c.dependencies[i].version, c.dependencies[i].local_path,
                                      c.write_dependencies_local_paths)]]))

\* The package table and the build-dependencies table.
package == TomlTable([key \in {"name", "version", "build", "edition"} |->
                        CASE key = "name" -> TomlString("crate")
                          [] key = "version" -> TomlString("0.0")
                          [] key = "build" -> TomlString("build.rs")
                          [] key = "edition" -> TomlString("2018")])
build_dependencies(c) ==
  TomlTable(IF ~c.should_remove_default_build_dependencies
            THEN MapInsert(EmptyMap, "ritual_build",
                           dep_value("0.0", IF c.write_dependencies_local_paths THEN "/ritual_build" ELSE NoPath,
                                     c.write_dependencies_local_paths))
            ELSE EmptyMap)

\* The table generated before the custom fields are merged into it.
GeneratedCargoToml(c) ==
  TomlTable([key \in {"package", "dependencies", "build-dependencies"} |->
               CASE key = "package" -> package
                 [] key = "dependencies" -> dependencies(c)
                 [] key = "build-dependencies" -> build_dependencies(c)])

\* generate_crate_template is entered with some configuration.
InitCargoToml ==
  /\ \E dep_databases \in SeqsUpTo(DepDatabaseValues, MaxDepDatabases),
        deps \in SeqsUpTo(CargoDependencyValues, MaxDependencies),
        remove \in BOOLEAN, remove_build \in BOOLEAN, local_paths \in BOOLEAN,
        custom_fields \in CustomFieldsValues :
       toml = [pc |-> "cargo_toml",
               config |-> [dep_databases |-> dep_databases, dependencies |-> deps,
                           should_remove_default_dependencies |-> remove,
                           should_remove_default_build_dependencies |-> remove_build,
                           write_dependencies_local_paths |-> local_paths],
               a |-> TomlTable(EmptyMap), b |-> custom_fields, merged |-> TomlTable(EmptyMap)]
  /\ DataIdle /\ IterIdle /\ CaptionsIdle /\ WriterIdle /\ LauncherIdle

\* cargo_toml_data is built and saved, or one of the `?` returns Err.
SaveCargoToml ==
  /\ toml.pc = "cargo_toml"
  /\ \/ toml' = [toml EXCEPT !.pc = "failed"]
     \/ toml' = [toml EXCEPT !.pc = "saved",
                             !.a = GeneratedCargoToml(toml.config),
                             !.merged = recursive_merge_toml(GeneratedCargoToml(toml.config), toml.b)]
  /\ UNCHANGED outsideToml

NextCargoToml == SaveCargoToml

SpecCargoToml == InitCargoToml /\ [][NextCargoToml]_vars

\* The keys of the dependencies table of the manifest.
ManifestDependencies == DOMAIN toml.merged.table["dependencies"].table
DepDatabaseNames == {toml.config.dep_databases[i].crate_name : i \in 1..Len(toml.config.dep_databases)}
OtherDependencyNames ==
  {toml.config.dependencies[i].name : i \in 1..Len(toml.config.dependencies)}
    \cup (IF "dependencies" \in DOMAIN toml.b.table THEN DOMAIN toml.b.table["dependencies"].table ELSE {})

\* C21 as stated: the saved manifest has a dependency entry for the crate of
\* every dependency database.
C21_AsStated ==
  toml.pc = "saved" => DepDatabaseNames \subseteq ManifestDependencies

\* C21: unless should_remove_default_dependencies() is set, the saved manifest
\* has a dependency entry for cpp_utils and for the crate of every dependency
\* database; when it is set, the entries are those of
\* crate_properties().dependencies() and of the custom fields, and no other.
C21_DefaultDependencies ==
  toml.pc = "saved" =>
    IF toml.config.should_remove_default_dependencies
    THEN ManifestDependencies = OtherDependencyNames
    ELSE ManifestDependencies = {"cpp_utils"} \cup DepDatabaseNames \cup OtherDependencyNames

\* A manifest saved for two dependency databases with the default
\* dependencies kept, and one of them also listed in the crate properties.
C21_Witness ==
  /\ toml.pc = "saved"
  /\ ~toml.config.should_remove_default_dependencies
  /\ DepDatabaseNames = {"qt_core", "qt_gui"}
  /\ OtherDependencyNames = {"qt_core"}
  /\ ManifestDependencies = {"cpp_utils", "qt_core", "qt_gui"}

\* C18 as stated: built with begin past end, next never returns None.
C18_AsStated == ret # None

\* C18 (amended): built with begin past end, next does not report exhaustion
\* for as long as begin is inside the container: every call dereferences
\* begin, yields that element and advances begin by one, and none returns
\* None.  From the container's past-the-end position on the calls are
\* undefined, and a later call may return None.
C18_NoExhaustionInsideContainer ==
  ~ub =>
    /\ ret # None
    /\ begin # end
    /\ begin = range[1] + Len(calls)
    /\ Len(yielded) = Len(calls)
    /\ \A i \in 1..Len(yielded) : yielded[i] = range[1] + i - 1

\* Two calls of next took begin, which started past end, to the container's
\* past-the-end position without a None.
C18_Witness ==
  /\ ~ub
  /\ Len(calls) >= 2
  /\ range[1] > range[2]
  /\ begin = MaxPos
  /\ ret = Some(MaxPos - 1)

====
